---- MODULE Spec2Model ----
(***************************************************************************)
(* A model of animebot.py: the scrape -> filter -> format -> relay ->      *)
(* record pipeline of main(), the two flat-file dedup stores, and the pure *)
(* helpers is_recent, extract_title and format_message.                    *)
(*                                                                         *)
(* A Python str is modelled as a sequence of code points, each code point  *)
(* a one-element string: "a", ".", "\n"; a code point outside ASCII is     *)
(* written by its name ("U+26A1"), so that Len counts what len() counts.   *)
(***************************************************************************)
EXTENDS Integers, Sequences, FiniteSets, TLC

VARIABLES
    \* ---- the two store files and main()'s run ----
    file_tweets,     \* posted_tweets.json
    file_content,    \* posted_content.json
    posted_tweets,   \* main(): the identifier set loaded at the start of the run
    posted_content,  \* main(): the fingerprint set loaded at the start of the run
    pc,              \* main(): where the run stands
    run,             \* number of the current invocation of main()
    src,             \* main(): index into SOURCES of the source in hand
    tweets,          \* main(): the list scrape_twitter returned for that source
    idx,             \* main(): index into tweets of the candidate in hand
    formatted,       \* main(): format_message's result for the candidate in hand
    save_err,        \* where the last save_posted_data raised ("none": nowhere)
    clock,           \* time units spent in time.sleep during this run
    \* ---- what happened, kept to state the properties ----
    scan_log,        \* the sources scrape_twitter was called with in this run, in order
    sent_ok,         \* how many sends succeeded in this run
    relayed,         \* the candidates whose send succeeded in this run
    send_failed,     \* whether a send has failed in this run
    failed,          \* the candidates whose send has failed, in this run or an earlier one
    scan_failed,     \* whether a scan has failed in this run
    prev_ids,        \* identifiers of the candidates relayed in earlier runs
    prev_hashes,     \* fingerprints of the candidates relayed in earlier runs
    io_fault,        \* whether a read or write of a store file has failed so far
    \* ---- format_message applied on its own ----
    fm_tweet, fm_out,
    \* ---- scrape_twitter's recency check applied on its own ----
    now, article, age, kept

pipeVars == <<file_tweets, file_content, posted_tweets, posted_content, pc, run, src,
              tweets, idx, formatted, save_err, clock, scan_log, sent_ok, relayed,
              send_failed, scan_failed, prev_ids, prev_hashes, io_fault,
              failed>>

fmVars == <<fm_tweet, fm_out>>

rcVars == <<now, article, age, kept>>

vars == <<pipeVars, fmVars, rcVars>>

-----------------------------------------------------------------------------
(* Strings *)

\* The code points str.split() and str.strip() treat as whitespace (those for
\* which str.isspace() holds).
WS == {" ", "\t", "\n", "\r", "\f", "U+000B", "U+001C", "U+001D", "U+001E",
       "U+001F", "U+0085", "U+00A0", "U+1680", "U+2000", "U+2001", "U+2002",
       "U+2003", "U+2004", "U+2005", "U+2006", "U+2007", "U+2008", "U+2009",
       "U+200A", "U+2028", "U+2029", "U+202F", "U+205F", "U+3000"}

Rep(c, n) == [i \in 1..n |-> c]

Min(S) == CHOOSE x \in S : \A y \in S : x <= y

Max(S) == CHOOSE x \in S : \A y \in S : x >= y

\* str.strip()
strip(s) ==
    LET ink == {i \in 1..Len(s) : s[i] \notin WS}
    IN  IF ink = {} THEN <<>> ELSE SubSeq(s, Min(ink), Max(ink))

\* text.split('.')[0], for a text that holds a '.'
FirstSentence(s) ==
    LET dots == {i \in 1..Len(s) : s[i] = "."}
    IN  SubSeq(s, 1, Min(dots) - 1)

\* The indices at which a whitespace-separated word of s starts.
WordStarts(s) == {i \in 1..Len(s) : s[i] \notin WS /\ (i = 1 \/ s[i - 1] \in WS)}

\* The index at which the word that starts at b ends.
WordEnd(s, b) == Min({i \in b..Len(s) : i = Len(s) \/ s[i + 1] \in WS})

\* The index at which the k-th word of s starts.
KthStart(s, k) ==
    CHOOSE i \in WordStarts(s) : Cardinality({j \in WordStarts(s) : j < i}) = k - 1

\* text.split()[:n]: the first n whitespace-separated words, as a sequence of strings
FirstWords(s, n) ==
    [k \in 1..Min({n, Cardinality(WordStarts(s))}) |->
        SubSeq(s, KthStart(s, k), WordEnd(s, KthStart(s, k)))]

\* ' '.join(words)
RECURSIVE join(_)
join(words) ==
    IF words = <<>> THEN <<>>
    ELSE IF Len(words) = 1 THEN words[1]
    ELSE words[1] \o <<" ">> \o join(Tail(words))

TITLE_WORDS == 7

\* extract_title(text)
extract_title(text) ==
    IF \E i \in 1..Len(text) : text[i] = "."
    THEN strip(FirstSentence(text))
    ELSE strip(join(FirstWords(text, TITLE_WORDS))) \o <<".", ".", ".">>

-----------------------------------------------------------------------------
(* format_message *)

HEAD_OPEN == <<"<", "b", ">", "U+26A1", " ">>

HEAD_CLOSE == <<"<", "/", "b", ">", "\n">>

SEP_WIDTH == 17

SEP_TOP == Rep("U+FE4F", SEP_WIDTH) \o <<"\n", "\n">>

SEP_BOTTOM == Rep("U+FE4B", SEP_WIDTH) \o <<"\n">>

FOOTER == <<"U+1F341", " ", "|", " ", "@", "T", "h", "e", "A", "n", "i", "m", "e",
            "T", "i", "m", "e", "s", "_", "a", "c", "n">>

CONTINUED == <<".", ".", ".", "\n", "\n", "[", "C", "O", "N", "T", "I", "N", "U",
               "E", "D", "]">>

CAPTION_LIMIT == 1000

CAPTION_CUT == 950

\* The caption as lines 122-127 assemble it, before the length check.
Caption(tweet) ==
    HEAD_OPEN \o extract_title(tweet.text) \o HEAD_CLOSE \o SEP_TOP
        \o tweet.text \o <<"\n", "\n">> \o SEP_BOTTOM \o FOOTER

Truncate_LimitInclusive(message) ==
    IF Len(message) >= CAPTION_LIMIT
    THEN SubSeq(message, 1, CAPTION_CUT) \o CONTINUED
    ELSE message

\* Lines 129-130: the length check and the cut.
Truncate(message) ==
    IF Len(message) > CAPTION_LIMIT
    THEN SubSeq(message, 1, CAPTION_CUT) \o CONTINUED
    ELSE message

format_message(tweet) ==
    [text |-> Truncate(Caption(tweet)), media |-> tweet.media[1]]

-----------------------------------------------------------------------------
(* Configuration *)

CONFIGURED_SOURCES ==
    <<"@Anime", "@comic_natalie", "@MangaMoguraRE", "@AniNewsAndFacts",
      "@WSJ_manga", "@animetv_jp", "@animecornernews", "@animety_off",
      "@ItsAnimeJP", "@AIR_News01", "@AniTrendz", "@myanimelist">>

\* How many of the configured sources, from the head of the list, a run of the
\* model scans; how many candidates one scan returns at most; how many times
\* main() is invoked.
NumSources == 2

MaxTweets == 2

MaxRuns == 2

SOURCES == SubSeq(CONFIGURED_SOURCES, 1, NumSources)

SLEEP_SECONDS == 10

-----------------------------------------------------------------------------
(* Candidate posts *)

TEXT_PV == <<"N", "e", "w", " ", "P", "V", ".", " ", "O", "u", "t", " ", "n", "o", "w">>

TEXT_MANGA == <<"M", "a", "n", "g", "a", " ", "e", "n", "d", "s">>

Texts == {TEXT_PV, TEXT_MANGA}

TweetIds == {"1001", "1002"}

MediaLists == {<<"https://pbs.twimg.com/media/A.jpg?format=jpg&name=large">>}

\* get_content_hash(text): the MD5 hex digest of the text's UTF-8 bytes, tabulated
\* for the texts of the model.
get_content_hash(text) ==
    CASE text = TEXT_PV    -> "b4aac5b6cea89dfd8709d74601762957"
      [] text = TEXT_MANGA -> "8e41dea709f520863ba82e6d5ebe9e47"

\* The dict scrape_twitter appends for an article it keeps (lines 106-111).
Tweet(id, text, media) ==
    [id |-> id, text |-> text, media |-> media,
     content_hash |-> get_content_hash(text)]

\* The candidates the scans of the model return: two posts with the same text
\* under different identifiers, and one identifier met with two texts.
Candidates ==
    {Tweet(i, t, m) : i \in TweetIds, t \in Texts, m \in MediaLists}
        \ {Tweet("1001", TEXT_MANGA, m) : m \in MediaLists}

RECURSIVE SeqsUpTo(_, _)
SeqsUpTo(S, n) ==
    IF n = 0 THEN {<<>>}
    ELSE LET shorter == SeqsUpTo(S, n - 1)
         IN  shorter \cup {Append(s, x) : s \in {q \in shorter : Len(q) = n - 1}, x \in S}

\* What scrape_twitter can return for a source: a list of candidates.
ScanResults == SeqsUpTo(Candidates, MaxTweets)

-----------------------------------------------------------------------------
(* The dedup store: posted_tweets.json and posted_content.json *)

Range(s) == {s[i] : i \in 1..Len(s)}

\* A store file is absent, holds a JSON array (a sequence of strings), or holds
\* something json.load rejects (an empty or cut-off file).
ABSENT == [st |-> "absent", data |-> <<>>]

CORRUPT == [st |-> "corrupt", data |-> <<>>]

JsonFile(seq) == [st |-> "ok", data |-> seq]

\* json.dump(list(s), f): the array lists the set's members once each, in the
\* order the set happens to iterate.
Dumps(S) ==
    {JsonFile(q) : q \in {p \in SeqsUpTo(S, Cardinality(S)) :
                             Len(p) = Cardinality(S) /\ Range(p) = S}}

\* Lines 37-39 and 41-43, for one file: what is read, and whether the open, the
\* read or the parse raised. read_error: the open or read of an existing file
\* fails.
ReadFile(f, read_error) ==
    IF f.st = "absent" THEN [raised |-> FALSE, val |-> {}]
    ELSE IF f.st = "corrupt" \/ read_error THEN [raised |-> TRUE, val |-> {}]
    ELSE [raised |-> FALSE, val |-> Range(f.data)]

ReadFaults == {"none", "tweets", "content"}

\* Whether load_posted_data() ends in its except branch.
LoadFailed(ft, fc, rf) ==
    ReadFile(ft, rf = "tweets").raised \/ ReadFile(fc, rf = "content").raised

\* load_posted_data(), with the files as they are and the read fault that occurs.
load_posted_data(ft, fc, rf) ==
    IF LoadFailed(ft, fc, rf)
    THEN [tweets |-> {}, content |-> {}]
    ELSE [tweets |-> ReadFile(ft, FALSE).val, content |-> ReadFile(fc, FALSE).val]

\* Where a save can raise: opening or writing either file. open(.., "w")
\* truncates, so a write that raises leaves a file json.load rejects.
WriteFaults == {"none", "open_tweets", "dump_tweets", "open_content", "dump_content"}

save_posted_data_OnlyNew(ft, fc, tweet_id, content_hash, rf, wf) ==
    {[tweets |-> a, content |-> b] : a \in Dumps({tweet_id}), b \in Dumps({content_hash})}

save_posted_data_NoHash(ft, fc, tweet_id, content_hash, rf, wf) ==
    LET loaded == load_posted_data(ft, fc, rf)
    IN  {[tweets |-> a, content |-> b] :
            a \in Dumps(loaded.tweets \cup {tweet_id}), b \in Dumps(loaded.content)}

\* save_posted_data(tweet_id, content_hash): the files it can leave behind.
save_posted_data(ft, fc, tweet_id, content_hash, rf, wf) ==
    LET loaded == load_posted_data(ft, fc, rf)
        posted_t == loaded.tweets \cup {tweet_id}
        posted_c == loaded.content \cup {content_hash}
    IN  CASE wf = "open_tweets"  -> {[tweets |-> ft, content |-> fc]}
          [] wf = "dump_tweets"  -> {[tweets |-> CORRUPT, content |-> fc]}
          [] wf = "open_content" -> {[tweets |-> a, content |-> fc] : a \in Dumps(posted_t)}
          [] wf = "dump_content" -> {[tweets |-> a, content |-> CORRUPT] : a \in Dumps(posted_t)}
          [] OTHER -> {[tweets |-> a, content |-> b] :
                          a \in Dumps(posted_t), b \in Dumps(posted_c)}

\* What the store holds for a reader that gets through: the entries of a file
\* that parses, nothing for one that is absent or does not parse.
Stored(f) == IF f.st = "ok" THEN Range(f.data) ELSE {}

-----------------------------------------------------------------------------
(* main() *)

NoMessage == [text |-> <<>>, media |-> ""]

NoTweet == [id |-> "", text |-> <<>>, media |-> <<>>, content_hash |-> ""]

NoTime == [Y |-> 0, m |-> 0, d |-> 0, H |-> 0, M |-> 0, S |-> 0, us |-> 0]

NoArticle == [id |-> "", has_time |-> FALSE, time |-> <<>>]

PipeInit ==
    /\ file_tweets = ABSENT
    /\ file_content = ABSENT
    /\ posted_tweets = {}
    /\ posted_content = {}
    /\ pc = "idle"
    /\ run = 1
    /\ src = 1
    /\ tweets = <<>>
    /\ idx = 1
    /\ formatted = NoMessage
    /\ save_err = "none"
    /\ clock = 0
    /\ scan_log = <<>>
    /\ sent_ok = 0
    /\ relayed = {}
    /\ send_failed = FALSE
    /\ failed = {}
    /\ scan_failed = FALSE
    /\ prev_ids = {}
    /\ prev_hashes = {}
    /\ io_fault = FALSE

FmIdle == fm_tweet = NoTweet /\ fm_out = NoMessage

NoAge == [known |-> FALSE, hours |-> 0, micros |-> 0]

RcIdle == now = NoTime /\ article = NoArticle /\ age = NoAge /\ kept = "unset"

Init == PipeInit /\ FmIdle /\ RcIdle

\* Line 164: the test that makes main() skip a candidate.
AlreadyPosted_BothNeeded(tweet, seen_ids, seen_hashes) ==
    tweet.id \in seen_ids /\ tweet.content_hash \in seen_hashes

AlreadyPosted(tweet, seen_ids, seen_hashes) ==
    tweet.id \in seen_ids \/ tweet.content_hash \in seen_hashes

\* Line 156: main() loads the store once, before the loop over the sources.
StartRun ==
    /\ pc = "idle"
    /\ \E rf \in ReadFaults :
          LET loaded == load_posted_data(file_tweets, file_content, rf)
          IN  /\ posted_tweets' = loaded.tweets
              /\ posted_content' = loaded.content
              /\ io_fault' = (io_fault \/ LoadFailed(file_tweets, file_content, rf))
    /\ src' = 1
    /\ pc' = "scan"
    /\ UNCHANGED <<file_tweets, file_content, run, tweets, idx, formatted, save_err,
                   clock, scan_log, sent_ok, relayed, send_failed, scan_failed,
                   prev_ids, prev_hashes, failed, fmVars, rcVars>>

\* Line 162: scrape_twitter(SOURCES[src]) returns result; raised says whether it
\* got there through its except branch.
ScanWith(result, raised) ==
    /\ pc = "scan"
    /\ src <= Len(SOURCES)
    /\ scan_log' = Append(scan_log, SOURCES[src])
    /\ scan_failed' = (scan_failed \/ raised)
    /\ tweets' = result
    /\ idx' = 1
    /\ pc' = "item"
    /\ UNCHANGED <<file_tweets, file_content, posted_tweets, posted_content, run, src,
                   formatted, save_err, clock, sent_ok, relayed, send_failed, prev_ids,
                   prev_hashes, io_fault, failed, fmVars, rcVars>>

ScanError_Propagates ==
    /\ pc = "scan"
    /\ src <= Len(SOURCES)
    /\ scan_log' = Append(scan_log, SOURCES[src])
    /\ scan_failed' = TRUE
    /\ pc' = "done"
    /\ UNCHANGED <<file_tweets, file_content, posted_tweets, posted_content, run, src,
                   tweets, idx, formatted, save_err, clock, sent_ok, relayed,
                   send_failed, prev_ids, prev_hashes, io_fault, failed, fmVars,
                   rcVars>>

\* Lines 162 and 116: scrape_twitter(source) returns the candidates it kept.
ScanOk == \E result \in ScanResults : ScanWith(result, FALSE)

\* Lines 162 and 117-119: the request or the parse raises; scrape_twitter logs it
\* and returns [].
ScanError == ScanWith(<<>>, TRUE)

\* Line 163: the list of this source is exhausted, on to the next source.
NextSource ==
    /\ pc = "item"
    /\ idx > Len(tweets)
    /\ src' = src + 1
    /\ tweets' = <<>>
    /\ idx' = 1
    /\ pc' = "scan"
    /\ UNCHANGED <<file_tweets, file_content, posted_tweets, posted_content, run,
                   formatted, save_err, clock, scan_log, sent_ok, relayed, send_failed,
                   scan_failed, prev_ids, prev_hashes, io_fault, failed, fmVars,
                   rcVars>>

\* Lines 164-165: a candidate main() has on record is passed over.
Skip ==
    /\ pc = "item"
    /\ idx <= Len(tweets)
    /\ AlreadyPosted(tweets[idx], posted_tweets, posted_content)
    /\ idx' = idx + 1
    /\ UNCHANGED <<file_tweets, file_content, posted_tweets, posted_content, pc, run,
                   src, tweets, formatted, save_err, clock, scan_log, sent_ok, relayed,
                   send_failed, scan_failed, prev_ids, prev_hashes, io_fault, failed,
                   fmVars, rcVars>>

\* Line 164, the other way: the candidate in hand is not on record.
CanAccept ==
    /\ pc = "item"
    /\ idx <= Len(tweets)
    /\ ~AlreadyPosted(tweets[idx], posted_tweets, posted_content)

\* Lines 164 and 167: any other candidate is formatted, to be sent.
Accept ==
    /\ CanAccept
    /\ formatted' = format_message(tweets[idx])
    /\ pc' = "send"
    /\ UNCHANGED <<file_tweets, file_content, posted_tweets, posted_content, run, src,
                   tweets, idx, save_err, clock, scan_log, sent_ok, relayed,
                   send_failed, scan_failed, prev_ids, prev_hashes, io_fault, failed,
                   fmVars, rcVars>>

\* Lines 168 and 139-150: the POST goes through with a 2xx status.
SendOk ==
    /\ pc = "send"
    /\ relayed' = relayed \cup {tweets[idx]}
    /\ sent_ok' = sent_ok + 1
    /\ pc' = "save"
    /\ UNCHANGED <<file_tweets, file_content, posted_tweets, posted_content, run, src,
                   tweets, idx, formatted, save_err, clock, scan_log, send_failed,
                   scan_failed, prev_ids, prev_hashes, io_fault, failed, fmVars,
                   rcVars>>

SendFail_StillRecords ==
    /\ pc = "send"
    /\ send_failed' = TRUE
    /\ failed' = failed \cup {tweets[idx]}
    /\ pc' = "save"
    /\ UNCHANGED <<file_tweets, file_content, posted_tweets, posted_content, run, src,
                   tweets, idx, formatted, save_err, clock, scan_log, sent_ok, relayed,
                   scan_failed, prev_ids, prev_hashes, io_fault, fmVars, rcVars>>

\* Lines 168 and 151-153: the POST raises or answers with an error status;
\* send_to_telegram returns False and main() goes on to the next candidate.
SendFail ==
    /\ pc = "send"
    /\ send_failed' = TRUE
    /\ failed' = failed \cup {tweets[idx]}
    /\ formatted' = NoMessage
    /\ idx' = idx + 1
    /\ pc' = "item"
    /\ UNCHANGED <<file_tweets, file_content, posted_tweets, posted_content, run, src,
                   tweets, save_err, clock, scan_log, sent_ok, relayed, scan_failed,
                   prev_ids, prev_hashes, io_fault, fmVars, rcVars>>

\* Line 169: save_posted_data(tweet['id'], tweet['content_hash']).
Save ==
    /\ pc = "save"
    /\ \E rf \in ReadFaults, wf \in WriteFaults :
          /\ \E files \in save_posted_data(file_tweets, file_content, tweets[idx].id,
                                           tweets[idx].content_hash, rf, wf) :
                /\ file_tweets' = files.tweets
                /\ file_content' = files.content
          /\ save_err' = IF wf # "none" THEN wf
                         ELSE IF LoadFailed(file_tweets, file_content, rf) THEN "load"
                         ELSE "none"
          /\ io_fault' = (io_fault \/ wf # "none"
                            \/ LoadFailed(file_tweets, file_content, rf))
    /\ pc' = "sleep"
    /\ UNCHANGED <<posted_tweets, posted_content, run, src, tweets, idx, formatted,
                   clock, scan_log, sent_ok, relayed, send_failed, scan_failed,
                   prev_ids, prev_hashes, failed, fmVars, rcVars>>

Sleep_Skipped ==
    /\ pc = "sleep"
    /\ formatted' = NoMessage
    /\ save_err' = "none"
    /\ idx' = idx + 1
    /\ pc' = "item"
    /\ UNCHANGED <<file_tweets, file_content, posted_tweets, posted_content, run, src,
                   tweets, clock, scan_log, sent_ok, relayed, send_failed, scan_failed,
                   prev_ids, prev_hashes, io_fault, failed, fmVars, rcVars>>

\* Line 171: time.sleep(10), then the next candidate.
Sleep ==
    /\ pc = "sleep"
    /\ clock' = clock + SLEEP_SECONDS
    /\ formatted' = NoMessage
    /\ save_err' = "none"
    /\ idx' = idx + 1
    /\ pc' = "item"
    /\ UNCHANGED <<file_tweets, file_content, posted_tweets, posted_content, run, src,
                   tweets, scan_log, sent_ok, relayed, send_failed, scan_failed,
                   prev_ids, prev_hashes, io_fault, failed, fmVars, rcVars>>

\* Line 159: the loop over SOURCES is exhausted and main() returns.
Finish ==
    /\ pc = "scan"
    /\ src > Len(SOURCES)
    /\ pc' = "done"
    /\ UNCHANGED <<file_tweets, file_content, posted_tweets, posted_content, run, src,
                   tweets, idx, formatted, save_err, clock, scan_log, sent_ok, relayed,
                   send_failed, scan_failed, prev_ids, prev_hashes, io_fault, failed,
                   fmVars, rcVars>>

\* Lines 175-176: the script is started again; nothing but the two files carries
\* over.
NextRun ==
    /\ pc = "done"
    /\ run < MaxRuns
    /\ run' = run + 1
    /\ pc' = "idle"
    /\ posted_tweets' = {}
    /\ posted_content' = {}
    /\ src' = 1
    /\ tweets' = <<>>
    /\ idx' = 1
    /\ formatted' = NoMessage
    /\ save_err' = "none"
    /\ clock' = 0
    /\ scan_log' = <<>>
    /\ sent_ok' = 0
    /\ relayed' = {}
    /\ send_failed' = FALSE
    /\ scan_failed' = FALSE
    /\ prev_ids' = prev_ids \cup {t.id : t \in relayed}
    /\ prev_hashes' = prev_hashes \cup {t.content_hash : t \in relayed}
    /\ UNCHANGED <<file_tweets, file_content, io_fault, failed, fmVars, rcVars>>

Next ==
    \/ StartRun
    \/ ScanOk
    \/ ScanError
    \/ NextSource
    \/ Skip
    \/ Accept
    \/ SendOk
    \/ SendFail
    \/ Save
    \/ Sleep
    \/ Finish
    \/ NextRun

Spec == Init /\ [][Next]_vars

-----------------------------------------------------------------------------
(* is_recent *)

HOURS_TO_CHECK == 24

DIGITS == <<"0", "1", "2", "3", "4", "5", "6", "7", "8", "9">>

\* The decimal digits of the other scripts (general category Nd), one row per
\* script, each row in the order 0..9.
UNICODE_DIGITS ==
    <<
      <<"U+0660", "U+0661", "U+0662", "U+0663", "U+0664", "U+0665", "U+0666", "U+0667", "U+0668", "U+0669">>,
      <<"U+06F0", "U+06F1", "U+06F2", "U+06F3", "U+06F4", "U+06F5", "U+06F6", "U+06F7", "U+06F8", "U+06F9">>,
      <<"U+07C0", "U+07C1", "U+07C2", "U+07C3", "U+07C4", "U+07C5", "U+07C6", "U+07C7", "U+07C8", "U+07C9">>,
      <<"U+0966", "U+0967", "U+0968", "U+0969", "U+096A", "U+096B", "U+096C", "U+096D", "U+096E", "U+096F">>,
      <<"U+09E6", "U+09E7", "U+09E8", "U+09E9", "U+09EA", "U+09EB", "U+09EC", "U+09ED", "U+09EE", "U+09EF">>,
      <<"U+0A66", "U+0A67", "U+0A68", "U+0A69", "U+0A6A", "U+0A6B", "U+0A6C", "U+0A6D", "U+0A6E", "U+0A6F">>,
      <<"U+0AE6", "U+0AE7", "U+0AE8", "U+0AE9", "U+0AEA", "U+0AEB", "U+0AEC", "U+0AED", "U+0AEE", "U+0AEF">>,
      <<"U+0B66", "U+0B67", "U+0B68", "U+0B69", "U+0B6A", "U+0B6B", "U+0B6C", "U+0B6D", "U+0B6E", "U+0B6F">>,
      <<"U+0BE6", "U+0BE7", "U+0BE8", "U+0BE9", "U+0BEA", "U+0BEB", "U+0BEC", "U+0BED", "U+0BEE", "U+0BEF">>,
      <<"U+0C66", "U+0C67", "U+0C68", "U+0C69", "U+0C6A", "U+0C6B", "U+0C6C", "U+0C6D", "U+0C6E", "U+0C6F">>,
      <<"U+0CE6", "U+0CE7", "U+0CE8", "U+0CE9", "U+0CEA", "U+0CEB", "U+0CEC", "U+0CED", "U+0CEE", "U+0CEF">>,
      <<"U+0D66", "U+0D67", "U+0D68", "U+0D69", "U+0D6A", "U+0D6B", "U+0D6C", "U+0D6D", "U+0D6E", "U+0D6F">>,
      <<"U+0DE6", "U+0DE7", "U+0DE8", "U+0DE9", "U+0DEA", "U+0DEB", "U+0DEC", "U+0DED", "U+0DEE", "U+0DEF">>,
      <<"U+0E50", "U+0E51", "U+0E52", "U+0E53", "U+0E54", "U+0E55", "U+0E56", "U+0E57", "U+0E58", "U+0E59">>,
      <<"U+0ED0", "U+0ED1", "U+0ED2", "U+0ED3", "U+0ED4", "U+0ED5", "U+0ED6", "U+0ED7", "U+0ED8", "U+0ED9">>,
      <<"U+0F20", "U+0F21", "U+0F22", "U+0F23", "U+0F24", "U+0F25", "U+0F26", "U+0F27", "U+0F28", "U+0F29">>,
      <<"U+1040", "U+1041", "U+1042", "U+1043", "U+1044", "U+1045", "U+1046", "U+1047", "U+1048", "U+1049">>,
      <<"U+1090", "U+1091", "U+1092", "U+1093", "U+1094", "U+1095", "U+1096", "U+1097", "U+1098", "U+1099">>,
      <<"U+17E0", "U+17E1", "U+17E2", "U+17E3", "U+17E4", "U+17E5", "U+17E6", "U+17E7", "U+17E8", "U+17E9">>,
      <<"U+1810", "U+1811", "U+1812", "U+1813", "U+1814", "U+1815", "U+1816", "U+1817", "U+1818", "U+1819">>,
      <<"U+1946", "U+1947", "U+1948", "U+1949", "U+194A", "U+194B", "U+194C", "U+194D", "U+194E", "U+194F">>,
      <<"U+19D0", "U+19D1", "U+19D2", "U+19D3", "U+19D4", "U+19D5", "U+19D6", "U+19D7", "U+19D8", "U+19D9">>,
      <<"U+1A80", "U+1A81", "U+1A82", "U+1A83", "U+1A84", "U+1A85", "U+1A86", "U+1A87", "U+1A88", "U+1A89">>,
      <<"U+1A90", "U+1A91", "U+1A92", "U+1A93", "U+1A94", "U+1A95", "U+1A96", "U+1A97", "U+1A98", "U+1A99">>,
      <<"U+1B50", "U+1B51", "U+1B52", "U+1B53", "U+1B54", "U+1B55", "U+1B56", "U+1B57", "U+1B58", "U+1B59">>,
      <<"U+1BB0", "U+1BB1", "U+1BB2", "U+1BB3", "U+1BB4", "U+1BB5", "U+1BB6", "U+1BB7", "U+1BB8", "U+1BB9">>,
      <<"U+1C40", "U+1C41", "U+1C42", "U+1C43", "U+1C44", "U+1C45", "U+1C46", "U+1C47", "U+1C48", "U+1C49">>,
      <<"U+1C50", "U+1C51", "U+1C52", "U+1C53", "U+1C54", "U+1C55", "U+1C56", "U+1C57", "U+1C58", "U+1C59">>,
      <<"U+A620", "U+A621", "U+A622", "U+A623", "U+A624", "U+A625", "U+A626", "U+A627", "U+A628", "U+A629">>,
      <<"U+A8D0", "U+A8D1", "U+A8D2", "U+A8D3", "U+A8D4", "U+A8D5", "U+A8D6", "U+A8D7", "U+A8D8", "U+A8D9">>,
      <<"U+A900", "U+A901", "U+A902", "U+A903", "U+A904", "U+A905", "U+A906", "U+A907", "U+A908", "U+A909">>,
      <<"U+A9D0", "U+A9D1", "U+A9D2", "U+A9D3", "U+A9D4", "U+A9D5", "U+A9D6", "U+A9D7", "U+A9D8", "U+A9D9">>,
      <<"U+A9F0", "U+A9F1", "U+A9F2", "U+A9F3", "U+A9F4", "U+A9F5", "U+A9F6", "U+A9F7", "U+A9F8", "U+A9F9">>,
      <<"U+AA50", "U+AA51", "U+AA52", "U+AA53", "U+AA54", "U+AA55", "U+AA56", "U+AA57", "U+AA58", "U+AA59">>,
      <<"U+ABF0", "U+ABF1", "U+ABF2", "U+ABF3", "U+ABF4", "U+ABF5", "U+ABF6", "U+ABF7", "U+ABF8", "U+ABF9">>,
      <<"U+FF10", "U+FF11", "U+FF12", "U+FF13", "U+FF14", "U+FF15", "U+FF16", "U+FF17", "U+FF18", "U+FF19">>,
      <<"U+104A0", "U+104A1", "U+104A2", "U+104A3", "U+104A4", "U+104A5", "U+104A6", "U+104A7", "U+104A8", "U+104A9">>,
      <<"U+10D30", "U+10D31", "U+10D32", "U+10D33", "U+10D34", "U+10D35", "U+10D36", "U+10D37", "U+10D38", "U+10D39">>,
      <<"U+11066", "U+11067", "U+11068", "U+11069", "U+1106A", "U+1106B", "U+1106C", "U+1106D", "U+1106E", "U+1106F">>,
      <<"U+110F0", "U+110F1", "U+110F2", "U+110F3", "U+110F4", "U+110F5", "U+110F6", "U+110F7", "U+110F8", "U+110F9">>,
      <<"U+11136", "U+11137", "U+11138", "U+11139", "U+1113A", "U+1113B", "U+1113C", "U+1113D", "U+1113E", "U+1113F">>,
      <<"U+111D0", "U+111D1", "U+111D2", "U+111D3", "U+111D4", "U+111D5", "U+111D6", "U+111D7", "U+111D8", "U+111D9">>,
      <<"U+112F0", "U+112F1", "U+112F2", "U+112F3", "U+112F4", "U+112F5", "U+112F6", "U+112F7", "U+112F8", "U+112F9">>,
      <<"U+11450", "U+11451", "U+11452", "U+11453", "U+11454", "U+11455", "U+11456", "U+11457", "U+11458", "U+11459">>,
      <<"U+114D0", "U+114D1", "U+114D2", "U+114D3", "U+114D4", "U+114D5", "U+114D6", "U+114D7", "U+114D8", "U+114D9">>,
      <<"U+11650", "U+11651", "U+11652", "U+11653", "U+11654", "U+11655", "U+11656", "U+11657", "U+11658", "U+11659">>,
      <<"U+116C0", "U+116C1", "U+116C2", "U+116C3", "U+116C4", "U+116C5", "U+116C6", "U+116C7", "U+116C8", "U+116C9">>,
      <<"U+11730", "U+11731", "U+11732", "U+11733", "U+11734", "U+11735", "U+11736", "U+11737", "U+11738", "U+11739">>,
      <<"U+118E0", "U+118E1", "U+118E2", "U+118E3", "U+118E4", "U+118E5", "U+118E6", "U+118E7", "U+118E8", "U+118E9">>,
      <<"U+11950", "U+11951", "U+11952", "U+11953", "U+11954", "U+11955", "U+11956", "U+11957", "U+11958", "U+11959">>,
      <<"U+11C50", "U+11C51", "U+11C52", "U+11C53", "U+11C54", "U+11C55", "U+11C56", "U+11C57", "U+11C58", "U+11C59">>,
      <<"U+11D50", "U+11D51", "U+11D52", "U+11D53", "U+11D54", "U+11D55", "U+11D56", "U+11D57", "U+11D58", "U+11D59">>,
      <<"U+11DA0", "U+11DA1", "U+11DA2", "U+11DA3", "U+11DA4", "U+11DA5", "U+11DA6", "U+11DA7", "U+11DA8", "U+11DA9">>,
      <<"U+16A60", "U+16A61", "U+16A62", "U+16A63", "U+16A64", "U+16A65", "U+16A66", "U+16A67", "U+16A68", "U+16A69">>,
      <<"U+16AC0", "U+16AC1", "U+16AC2", "U+16AC3", "U+16AC4", "U+16AC5", "U+16AC6", "U+16AC7", "U+16AC8", "U+16AC9">>,
      <<"U+16B50", "U+16B51", "U+16B52", "U+16B53", "U+16B54", "U+16B55", "U+16B56", "U+16B57", "U+16B58", "U+16B59">>,
      <<"U+1D7CE", "U+1D7CF", "U+1D7D0", "U+1D7D1", "U+1D7D2", "U+1D7D3", "U+1D7D4", "U+1D7D5", "U+1D7D6", "U+1D7D7">>,
      <<"U+1D7D8", "U+1D7D9", "U+1D7DA", "U+1D7DB", "U+1D7DC", "U+1D7DD", "U+1D7DE", "U+1D7DF", "U+1D7E0", "U+1D7E1">>,
      <<"U+1D7E2", "U+1D7E3", "U+1D7E4", "U+1D7E5", "U+1D7E6", "U+1D7E7", "U+1D7E8", "U+1D7E9", "U+1D7EA", "U+1D7EB">>,
      <<"U+1D7EC", "U+1D7ED", "U+1D7EE", "U+1D7EF", "U+1D7F0", "U+1D7F1", "U+1D7F2", "U+1D7F3", "U+1D7F4", "U+1D7F5">>,
      <<"U+1D7F6", "U+1D7F7", "U+1D7F8", "U+1D7F9", "U+1D7FA", "U+1D7FB", "U+1D7FC", "U+1D7FD", "U+1D7FE", "U+1D7FF">>,
      <<"U+1E140", "U+1E141", "U+1E142", "U+1E143", "U+1E144", "U+1E145", "U+1E146", "U+1E147", "U+1E148", "U+1E149">>,
      <<"U+1E2F0", "U+1E2F1", "U+1E2F2", "U+1E2F3", "U+1E2F4", "U+1E2F5", "U+1E2F6", "U+1E2F7", "U+1E2F8", "U+1E2F9">>,
      <<"U+1E950", "U+1E951", "U+1E952", "U+1E953", "U+1E954", "U+1E955", "U+1E956", "U+1E957", "U+1E958", "U+1E959">>,
      <<"U+1FBF0", "U+1FBF1", "U+1FBF2", "U+1FBF3", "U+1FBF4", "U+1FBF5", "U+1FBF6", "U+1FBF7", "U+1FBF8", "U+1FBF9">>
    >>

\* [0-9]
IsAsciiDigit(c) == \E i \in 1..10 : DIGITS[i] = c

\* [lo-hi], for digits lo and hi
InRange(c, lo, hi) == \E i \in (lo + 1)..(hi + 1) : DIGITS[i] = c

\* \d in a str pattern: any decimal digit, of any script.
IsDigit(c) ==
    \/ IsAsciiDigit(c)
    \/ \E r \in 1..Len(UNICODE_DIGITS) : \E i \in 1..10 : UNICODE_DIGITS[r][i] = c

\* int(c) of one decimal digit
DigitVal(c) ==
    IF IsAsciiDigit(c) THEN (CHOOSE i \in 1..10 : DIGITS[i] = c) - 1
    ELSE (CHOOSE i \in 1..10 :
             \E r \in 1..Len(UNICODE_DIGITS) : UNICODE_DIGITS[r][i] = c) - 1

AllDigits(s) == \A i \in 1..Len(s) : IsDigit(s[i])

AllAsciiDigits(s) == \A i \in 1..Len(s) : IsAsciiDigit(s[i])

\* int(s) of a run of at most six decimal digits
RECURSIVE ToInt(_)
ToInt(s) ==
    IF s = <<>> THEN 0
    ELSE 10 * ToInt(SubSeq(s, 1, Len(s) - 1)) + DigitVal(s[Len(s)])

\* The first index at or after from where s holds one of the code points cs; 0 if none.
Find(s, cs, from) ==
    LET hits == {i \in from..Len(s) : s[i] \in cs}
    IN  IF from < 1 \/ hits = {} THEN 0 ELSE Min(hits)

IsLeap(y) == y % 4 = 0 /\ (y % 100 # 0 \/ y % 400 = 0)

DaysInMonth(y, m) ==
    IF m = 2 THEN (IF IsLeap(y) THEN 29 ELSE 28)
    ELSE IF m \in {4, 6, 9, 11} THEN 30 ELSE 31

\* The regular expressions of the directives, each matched against the whole
\* of the field between two separators.
\* %Y: \d\d\d\d
Directive_Y(s) == Len(s) = 4 /\ AllDigits(s)

\* %m: 1[0-2]|0[1-9]|[1-9]
Directive_m(s) ==
    \/ Len(s) = 2 /\ s[1] = "1" /\ InRange(s[2], 0, 2)
    \/ Len(s) = 2 /\ s[1] = "0" /\ InRange(s[2], 1, 9)
    \/ Len(s) = 1 /\ InRange(s[1], 1, 9)

\* %d: 3[0-1]|[1-2]\d|0[1-9]|[1-9]| [1-9]
Directive_d(s) ==
    \/ Len(s) = 2 /\ s[1] = "3" /\ InRange(s[2], 0, 1)
    \/ Len(s) = 2 /\ InRange(s[1], 1, 2) /\ IsDigit(s[2])
    \/ Len(s) = 2 /\ s[1] = "0" /\ InRange(s[2], 1, 9)
    \/ Len(s) = 1 /\ InRange(s[1], 1, 9)
    \/ Len(s) = 2 /\ s[1] = " " /\ InRange(s[2], 1, 9)

\* %H: 2[0-3]|[0-1]\d|\d
Directive_H(s) ==
    \/ Len(s) = 2 /\ s[1] = "2" /\ InRange(s[2], 0, 3)
    \/ Len(s) = 2 /\ InRange(s[1], 0, 1) /\ IsDigit(s[2])
    \/ Len(s) = 1 /\ IsDigit(s[1])

\* %M: [0-5]\d|\d
Directive_M(s) ==
    \/ Len(s) = 2 /\ InRange(s[1], 0, 5) /\ IsDigit(s[2])
    \/ Len(s) = 1 /\ IsDigit(s[1])

\* %S: 6[0-1]|[0-5]\d|\d
Directive_S(s) ==
    \/ Len(s) = 2 /\ s[1] = "6" /\ InRange(s[2], 0, 1)
    \/ Len(s) = 2 /\ InRange(s[1], 0, 5) /\ IsDigit(s[2])
    \/ Len(s) = 1 /\ IsDigit(s[1])

\* %f: [0-9]{1,6}
Directive_f(s) == Len(s) \in 1..6 /\ AllAsciiDigits(s)

\* datetime.strptime(tweet_time, "%Y-%m-%dT%H:%M:%S.%fZ"): the datetime, or
\* ok = FALSE where strptime raises ValueError. The pattern is matched ignoring
\* case, so the format's letters T and Z match either case; int() reads the
\* digits of any script, and a blank before the day's digit; %S takes 60 and 61,
\* which the datetime constructor then refuses, as it does year 0 and a day past
\* the month's end.
strptime(s) ==
    LET p1 == Find(s, {"-"}, 1)
        p2 == Find(s, {"-"}, p1 + 1)
        p3 == Find(s, {"T", "t"}, p2 + 1)
        p4 == Find(s, {":"}, p3 + 1)
        p5 == Find(s, {":"}, p4 + 1)
        p6 == Find(s, {"."}, p5 + 1)
        shaped == /\ p1 > 0 /\ p2 > 0 /\ p3 > 0 /\ p4 > 0 /\ p5 > 0 /\ p6 > 0
                  /\ Len(s) > p6
                  /\ s[Len(s)] \in {"Z", "z"}
        fY == SubSeq(s, 1, p1 - 1)
        fm == SubSeq(s, p1 + 1, p2 - 1)
        fd0 == SubSeq(s, p2 + 1, p3 - 1)
        fd == IF Len(fd0) = 2 /\ fd0[1] = " " THEN SubSeq(fd0, 2, 2) ELSE fd0
        fH == SubSeq(s, p3 + 1, p4 - 1)
        fM == SubSeq(s, p4 + 1, p5 - 1)
        fS == SubSeq(s, p5 + 1, p6 - 1)
        ff == SubSeq(s, p6 + 1, Len(s) - 1)
        matched == /\ shaped
                   /\ Directive_Y(fY)
                   /\ Directive_m(fm)
                   /\ Directive_d(fd0)
                   /\ Directive_H(fH)
                   /\ Directive_M(fM)
                   /\ Directive_S(fS)
                   /\ Directive_f(ff)
        valid == /\ matched
                 /\ ToInt(fY) >= 1
                 /\ ToInt(fd) <= DaysInMonth(ToInt(fY), ToInt(fm))
                 /\ ToInt(fS) <= 59
    IN  IF valid
        THEN [ok |-> TRUE,
              dt |-> [Y |-> ToInt(fY), m |-> ToInt(fm), d |-> ToInt(fd),
                      H |-> ToInt(fH), M |-> ToInt(fM), S |-> ToInt(fS),
                      us |-> ToInt(ff \o Rep("0", 6 - Len(ff)))]]
        ELSE [ok |-> FALSE, dt |-> NoTime]

\* The proleptic Gregorian ordinal of a date (datetime's _ymd2ord).
DaysBeforeYear(y) ==
    (y - 1) * 365 + ((y - 1) \div 4) - ((y - 1) \div 100) + ((y - 1) \div 400)

RECURSIVE DaysBeforeMonth(_, _)
DaysBeforeMonth(y, m) ==
    IF m = 1 THEN 0 ELSE DaysBeforeMonth(y, m - 1) + DaysInMonth(y, m - 1)

Ordinal(dt) == DaysBeforeYear(dt.Y) + DaysBeforeMonth(dt.Y, dt.m) + dt.d

SecondOfDay(dt) == dt.H * 3600 + dt.M * 60 + dt.S

\* A datetime as <<day, second of the day, microsecond>>, which orders as
\* datetimes do.
Instant(dt) == <<Ordinal(dt), SecondOfDay(dt), dt.us>>

\* dt - timedelta(hours=h), as an Instant
MinusHours(dt, h) ==
    LET secs == SecondOfDay(dt) - h * 3600
    IN  <<Ordinal(dt) + (secs \div 86400), secs % 86400, dt.us>>

After(a, b) ==
    \/ a[1] > b[1]
    \/ a[1] = b[1] /\ a[2] > b[2]
    \/ a[1] = b[1] /\ a[2] = b[2] /\ a[3] > b[3]

is_recent_RejectsUnparsed(tweet_time, current) ==
    LET parsed == strptime(tweet_time)
    IN  parsed.ok /\ After(Instant(parsed.dt), MinusHours(current, HOURS_TO_CHECK))

\* is_recent(tweet_time), with current the value datetime.now() returns. The
\* subtraction raises OverflowError below year 1, which the bare except takes too.
is_recent(tweet_time, current) ==
    LET parsed == strptime(tweet_time)
        cutoff == MinusHours(current, HOURS_TO_CHECK)
    IN  IF ~parsed.ok \/ cutoff[1] < 1 THEN TRUE
        ELSE After(Instant(parsed.dt), cutoff)

-----------------------------------------------------------------------------
(* scrape_twitter's recency check, applied to one article *)

\* The digits 0..9 of a script: those of ASCII for 0, of row r of
\* UNICODE_DIGITS for r.
DigitRow(r) == IF r = 0 THEN DIGITS ELSE UNICODE_DIGITS[r]

\* n in decimal, w digits wide, zero-padded, in the digits of script r
RECURSIVE PadIn(_, _, _)
PadIn(n, w, r) ==
    IF w = 0 THEN <<>> ELSE PadIn(n \div 10, w - 1, r) \o <<DigitRow(r)[(n % 10) + 1]>>

\* n in decimal, w digits wide, zero-padded
Pad(n, w) == PadIn(n, w, 0)

\* n in two digits, the second in the digits of script r
Pad2In(n, r) == Pad(n \div 10, 1) \o PadIn(n % 10, 1, r)

\* The datetime attribute of a <time> tag for the instant dt: milliseconds when
\* dt has no finer part, microseconds otherwise. With r # 0, the digits that
\* strptime takes from any script are written in script r.
IsoFormatIn(dt, r) ==
    PadIn(dt.Y, 4, r) \o <<"-">> \o Pad(dt.m, 2) \o <<"-">>
        \o (IF dt.d \in 10..29 THEN Pad2In(dt.d, r) ELSE Pad(dt.d, 2)) \o <<"T">>
        \o (IF dt.H < 20 THEN Pad2In(dt.H, r) ELSE Pad(dt.H, 2)) \o <<":">>
        \o Pad2In(dt.M, r) \o <<":">> \o Pad2In(dt.S, r) \o <<".">>
        \o (IF dt.us % 1000 = 0 THEN Pad(dt.us \div 1000, 3) ELSE Pad(dt.us, 6))
        \o <<"Z">>

IsoFormat(dt) == IsoFormatIn(dt, 0)

\* The scripts the model writes timestamps in: ASCII, Arabic-Indic, fullwidth.
Scripts == {0, 1, 36}

PrevDay(dt) ==
    IF dt.d > 1 THEN [dt EXCEPT !.d = dt.d - 1]
    ELSE IF dt.m > 1 THEN [dt EXCEPT !.m = dt.m - 1, !.d = DaysInMonth(dt.Y, dt.m - 1)]
    ELSE [dt EXCEPT !.Y = dt.Y - 1, !.m = 12, !.d = 31]

NextDay(dt) ==
    IF dt.d < DaysInMonth(dt.Y, dt.m) THEN [dt EXCEPT !.d = dt.d + 1]
    ELSE IF dt.m < 12 THEN [dt EXCEPT !.m = dt.m + 1, !.d = 1]
    ELSE [dt EXCEPT !.Y = dt.Y + 1, !.m = 1, !.d = 1]

RECURSIVE ShiftDays(_, _)
ShiftDays(dt, n) ==
    IF n = 0 THEN dt
    ELSE IF n < 0 THEN ShiftDays(PrevDay(dt), n + 1)
    ELSE ShiftDays(NextDay(dt), n - 1)

\* The instant that lies a.hours hours and a.micros microseconds before dt.
Back(dt, a) ==
    LET us1 == dt.us - a.micros
        secs == SecondOfDay(dt) - a.hours * 3600 + (us1 \div 1000000)
        sod == secs % 86400
        day == ShiftDays(dt, secs \div 86400)
    IN  [day EXCEPT !.H = sod \div 3600, !.M = (sod % 3600) \div 60, !.S = sod % 60,
                    !.us = us1 % 1000000]

\* Scan times: an afternoon, the small hours after a leap day, a new year's morning.
Nows ==
    {[Y |-> 2024, m |-> 3, d |-> 15, H |-> 12, M |-> 30, S |-> 45, us |-> 123456],
     [Y |-> 2024, m |-> 3, d |-> 1, H |-> 0, M |-> 10, S |-> 0, us |-> 0],
     [Y |-> 2025, m |-> 1, d |-> 1, H |-> 5, M |-> 0, S |-> 59, us |-> 500000]}

\* Ages of the posts met: whole hours around the window's edge, and a
\* millisecond either side of each.
Ages ==
    {[known |-> TRUE, hours |-> h, micros |-> u] :
        h \in {-1, 0, 1, 23, 24, 25, 48}, u \in {-1000, 0, 1000}}

\* datetime attributes strptime rejects.
Malformed ==
    {<<>>,
     <<"y", "e", "s", "t", "e", "r", "d", "a", "y">>,
     <<"2", "0", "2", "0", "-", "0", "1", "-", "0", "5", "T", "0", "3", ":", "0", "4", ":", "0", "5", "Z">>,
     <<"2", "0", "2", "0", "-", "0", "1", "-", "0", "5", "T", "0", "3", ":", "0", "4", ":", "0", "5", ".", "0", "0", "0">>,
     <<"2", "0", "2", "0", "-", "0", "1", "-", "0", "5", "T", "0", "3", ":", "0", "4", ":", "0", "5", ".", "0", "0", "0", "+", "0", "0", ":", "0", "0">>,
     <<"2", "0", "2", "0", "-", "0", "2", "-", "3", "0", "T", "0", "3", ":", "0", "4", ":", "0", "5", ".", "0", "0", "0", "Z">>,
     <<"2", "0", "2", "0", "-", "1", "3", "-", "0", "5", "T", "0", "3", ":", "0", "4", ":", "0", "5", ".", "0", "0", "0", "Z">>,
     <<"2", "0", "2", "0", "-", "0", "1", "-", "0", "5", "T", "0", "3", ":", "0", "4", ":", "6", "0", ".", "0", "0", "0", "Z">>,
     <<"2", "0", "2", "0", "-", "0", "1", "-", "0", "5", "T", "2", "4", ":", "0", "4", ":", "0", "5", ".", "0", "0", "0", "Z">>,
     <<"2", "0", "2", "0", "-", "0", "1", "-", "0", "5", "T", "0", "3", ":", "0", "4", ":", "0", "5", ".", "0", "0", "0", "0", "0", "0", "0", "Z">>,
     <<"2", "0", "2", "0", "-", "0", "1", "-", "0", "5", " ", "0", "3", ":", "0", "4", ":", "0", "5", ".", "0", "0", "0", "Z">>,
     <<"0", "0", "0", "0", "-", "0", "1", "-", "0", "5", "T", "0", "3", ":", "0", "4", ":", "0", "5", ".", "0", "0", "0", "Z">>}

\* datetime attributes strptime rejects for a digit of another script where the
\* directive takes ASCII only: the month, the fraction, the first of two digits
\* of the hour, the second digit of day 30.
ForeignMalformed ==
    {<<"2", "0", "2", "0", "-", "0", "U+0661", "-", "0", "5", "T", "0", "3", ":", "0", "4", ":", "0", "5", ".", "0", "0", "0", "Z">>,
     <<"2", "0", "2", "0", "-", "0", "1", "-", "0", "5", "T", "0", "3", ":", "0", "4", ":", "0", "5", ".", "0", "0", "U+FF10", "Z">>,
     <<"2", "0", "2", "0", "-", "0", "1", "-", "0", "5", "T", "U+0660", "3", ":", "0", "4", ":", "0", "5", ".", "0", "0", "0", "Z">>,
     <<"2", "0", "2", "0", "-", "0", "1", "-", "3", "U+0660", "T", "0", "3", ":", "0", "4", ":", "0", "5", ".", "0", "0", "0", "Z">>,
     <<"U+0660", "U+0660", "U+0660", "U+0660", "-", "0", "1", "-", "0", "5", "T", "0", "3", ":", "0", "4", ":", "0", "5", ".", "0", "0", "0", "Z">>}

InitRecent ==
    /\ PipeInit
    /\ FmIdle
    /\ now \in Nows
    /\ kept = "unset"
    /\ \/ \E a \in Ages, r \in Scripts :
             /\ age = a
             /\ article = [id |-> "1001", has_time |-> TRUE,
                           time |-> IsoFormatIn(Back(now, a), r)]
       \/ \E t \in Malformed \cup ForeignMalformed :
             /\ age = NoAge
             /\ article = [id |-> "1001", has_time |-> TRUE, time |-> t]
       \/ /\ age = NoAge
          /\ article = [id |-> "1001", has_time |-> FALSE, time |-> <<>>]

\* Lines 88-90: an article with no <time> tag, or with one that is_recent turns
\* down, is passed over; any other goes on to the text and media checks.
CheckArticle ==
    /\ kept = "unset"
    /\ article.has_time
    /\ kept' = IF is_recent(article.time, now) THEN "kept" ELSE "skipped"
    /\ UNCHANGED <<pipeVars, fmVars, now, article, age>>

NoTimeTag ==
    /\ kept = "unset"
    /\ ~article.has_time
    /\ kept' = "skipped"
    /\ UNCHANGED <<pipeVars, fmVars, now, article, age>>

NextRecent == CheckArticle \/ NoTimeTag

SpecRecent == InitRecent /\ [][NextRecent]_vars

-----------------------------------------------------------------------------
(* format_message, applied to one candidate *)

\* How far the assembled captions of the model reach on either side of
\* CAPTION_LIMIT.
Slack == 5

\* Everything format_message puts around the title and the text.
FrameLen ==
    Len(HEAD_OPEN) + Len(HEAD_CLOSE) + Len(SEP_TOP) + Len(<<"\n", "\n">>)
        + Len(SEP_BOTTOM) + Len(FOOTER)

\* A text whose first sentence is k letters long, n code points in all.
Sentence(k, n) == Rep("a", k) \o <<".">> \o Rep("b", n - k - 1)

\* The same with blanks around the first sentence.
PaddedSentence(k, n) == <<" ">> \o Rep("a", k) \o <<" ", ".">> \o Rep("b", n - k - 3)

\* A text of nine words and no period, n code points in all.
NineWords(n) ==
    <<"a", "b", " ", "c", "d", "\n", "e", "f", " ", " ", "g", "h", "\t", "i", "j",
      " ", "k", "l", " ", "m", "n", " ", "o", "p", " ">> \o Rep("q", n - 25)

\* Eight words and no period, parted by blanks of several kinds, n code points
\* in all.
WideBlanks(n) ==
    <<"a", "U+2003", "b", "U+1680", "c", "U+2009", "U+202F", "d", "U+205F", "e",
      "U+200A", "f", "U+2000", "g", " ", "h", "U+2003">> \o Rep("z", n - 17)

\* A text of one word and no period.
OneWord(n) == Rep("w", n)

CaptionLengths == (CAPTION_LIMIT - Slack)..(CAPTION_LIMIT + Slack)

FormatTexts ==
    {Sentence(k, c - FrameLen - k) : k \in {0, 3, 40}, c \in CaptionLengths}
        \cup {PaddedSentence(k, c - FrameLen - k) : k \in {3}, c \in CaptionLengths}
        \cup {NineWords(c - FrameLen - 23) : c \in CaptionLengths}
        \cup {WideBlanks(n) : n \in {17, 18, 940}}
        \cup {OneWord(n) : n \in {1, 7, 461, 462, 463, 464, 465, 700}}
        \cup {Sentence(3, n) : n \in {4, 10, 1200}}
        \cup {<<" ">>, TEXT_PV, TEXT_MANGA}

FormatInputs ==
    {[id |-> "1001", text |-> t,
      media |-> <<"https://pbs.twimg.com/media/A.jpg?format=jpg&name=large",
                  "https://pbs.twimg.com/media/B.jpg?format=jpg&name=large">>,
      content_hash |-> ""] : t \in FormatTexts}

InitFormat ==
    /\ PipeInit
    /\ RcIdle
    /\ fm_tweet \in FormatInputs
    /\ fm_out = NoMessage

\* Lines 121-135: format_message(tweet).
Format ==
    /\ fm_out = NoMessage
    /\ fm_out' = format_message(fm_tweet)
    /\ UNCHANGED <<pipeVars, rcVars, fm_tweet>>

NextFormat == Format

SpecFormat == InitFormat /\ [][NextFormat]_vars

-----------------------------------------------------------------------------
(* Properties *)

\* The candidate main() has in hand.
Current == tweets[idx]

\* What a load_posted_data() that meets no read fault returns now.
FreshLoad == load_posted_data(file_tweets, file_content, "none")

\* C1: when the scan of a source returns two candidates with different
\* identifiers and the same text, neither on record, and every send and every
\* store access succeeds, then once both have been processed only the first has
\* been relayed, and the store holds one of the two identifiers and their one
\* fingerprint.
C1_OnlyFirstOfTwinsRelayed ==
    (/\ pc = "item" /\ src = 1 /\ Len(tweets) = 2 /\ idx = 3
     /\ tweets[1].id # tweets[2].id
     /\ tweets[1].text = tweets[2].text
     /\ ~AlreadyPosted(tweets[1], posted_tweets, posted_content)
     /\ ~AlreadyPosted(tweets[2], posted_tweets, posted_content)
     /\ ~send_failed /\ ~io_fault)
    => /\ relayed = {tweets[1]}
       /\ sent_ok = 1
       /\ Cardinality(Stored(file_tweets) \cap {tweets[1].id, tweets[2].id}) = 1
       /\ Cardinality(Stored(file_content) \cap {tweets[1].content_hash}) = 1

\* C2: no step of the program, whether or not a read, a parse or a write of a
\* store file fails in it, removes an identifier or a fingerprint from the
\* persisted store.
C2_StoreNeverLosesEntries ==
    [][/\ Stored(file_tweets) \subseteq Stored(file_tweets')
       /\ Stored(file_content) \subseteq Stored(file_content')]_vars

\* C3: main() formats a candidate and goes on to send it exactly when its
\* identifier is not in the seen-identifier set and its fingerprint is not in
\* the seen-fingerprint set; a candidate with either on record is passed over,
\* whatever the other is.
C3_NewIffNeitherSeen ==
    [][(pc = "item" /\ idx <= Len(tweets)) =>
          LET new == /\ Current.id \notin posted_tweets
                     /\ Current.content_hash \notin posted_content
          IN  /\ new => (pc' = "send" /\ idx' = idx
                          /\ formatted' = format_message(Current))
              /\ ~new => (pc' = "item" /\ idx' = idx + 1 /\ formatted' = formatted
                           /\ sent_ok' = sent_ok)]_vars

C3_Witness ==
    /\ pc = "item" /\ src = 1 /\ idx = 2 /\ sent_ok = 0 /\ ~send_failed
    /\ tweets[1].id \in posted_tweets
    /\ tweets[1].content_hash \notin posted_content

\* C4: when both store files parse (or are absent) and save_posted_data(i, h)
\* meets no I/O error, a fresh load returns the identifiers held before plus i
\* and the fingerprints held before plus h, and nothing else.
C4_SaveLoadRoundTrip ==
    [][(pc = "save" /\ save_err' = "none") =>
          load_posted_data(file_tweets', file_content', "none")
            = [tweets |-> Stored(file_tweets) \cup {Current.id},
               content |-> Stored(file_content) \cup {Current.content_hash}]]_vars

C4_Witness ==
    /\ pc = "sleep" /\ save_err = "none"
    /\ Cardinality(FreshLoad.tweets) = 2
    /\ Cardinality(FreshLoad.content) = 2
    /\ Current.id \in FreshLoad.tweets

\* The identifiers and the fingerprints of the candidates relayed so far, in this
\* run or an earlier one.
EverRelayedIds == prev_ids \cup {t.id : t \in relayed}

EverRelayedHashes == prev_hashes \cup {t.content_hash : t \in relayed}

\* A step in which the send for the candidate in hand fails.
FailedSendStep == pc = "send" /\ sent_ok' = sent_ok

\* The failing send is not repeated and leaves the store alone: main() goes on to
\* the next candidate with both store files as they were and nothing relayed.
FailedSendLeavesStore ==
    FailedSendStep =>
        /\ pc' = "item" /\ idx' = idx + 1
        /\ file_tweets' = file_tweets /\ file_content' = file_content
        /\ relayed' = relayed
        /\ Current \in failed'
        /\ ~AlreadyPosted(Current, posted_tweets, posted_content)

\* C5 as stated: a send that fails is not repeated in the run and leaves both
\* store files as they were, and every candidate whose send has failed is new to
\* the sets each run, the failing one and every later one, tests its candidates
\* against.
C5_FailedSendStillNew ==
    /\ [][FailedSendLeavesStore]_vars
    /\ [](pc # "idle" =>
             \A x \in failed : ~AlreadyPosted(x, posted_tweets, posted_content))

\* C5, amended: a send that fails is not repeated in the run and leaves both
\* store files as they were; a candidate whose send has failed is new to the
\* sets each run tests its candidates against, and to whatever a load of the
\* store returns, unless a send has succeeded for a candidate with the same
\* identifier or the same fingerprint.
C5_FailedSendNewUnlessRelayed ==
    /\ [][FailedSendLeavesStore]_vars
    /\ [](\A x \in failed :
             (x.id \notin EverRelayedIds /\ x.content_hash \notin EverRelayedHashes) =>
                 /\ pc # "idle" => ~AlreadyPosted(x, posted_tweets, posted_content)
                 /\ \A rf \in ReadFaults :
                       LET loaded == load_posted_data(file_tweets, file_content, rf)
                       IN  ~AlreadyPosted(x, loaded.tweets, loaded.content))

\* A later run has found new, and formatted for sending, a candidate whose send
\* failed in an earlier run, with another candidate's entries in the store.
C5_Witness ==
    /\ run = 2 /\ pc = "send" /\ ~send_failed /\ ~io_fault
    /\ Current \in failed
    /\ Stored(file_tweets) # {} /\ Stored(file_content) # {}
    /\ Current.id \notin EverRelayedIds
    /\ Current.content_hash \notin EverRelayedHashes

\* What is left of a run: the sources still to scan, then the candidates still
\* to process, then the steps still to take for the candidate in hand.
RunMeasure ==
    LET perSource == 4 * MaxTweets + 5
        stage == CASE pc = "item" -> 3 [] pc = "send" -> 2 [] pc = "save" -> 1
                   [] OTHER -> 0
    IN  CASE pc = "idle" -> (Len(SOURCES) + 1) * perSource
          [] pc = "scan" -> (Len(SOURCES) + 1 - src) * perSource + perSource - 1
          [] pc = "done" -> 0
          [] OTHER -> (Len(SOURCES) + 1 - src) * perSource
                        + 4 * (Len(tweets) + 1 - idx) + stage

\* A step of main() can be taken. (format_message is defined on every candidate,
\* so Accept can be taken wherever its guard holds.)
HasStep ==
    \/ CanAccept
    \/ ENABLED (\/ StartRun \/ ScanOk \/ ScanError \/ NextSource \/ Skip \/ SendOk
                \/ SendFail \/ Save \/ Sleep \/ Finish)

\* C6: whatever fails, a run scans the configured sources one after the other in
\* the order of the list, each once, and ends having scanned them all: a run
\* that has not ended always has a step to take, and every step brings it nearer
\* to its end.
C6_EverySourceScannedThenDone ==
    /\ [](/\ Len(scan_log) <= Len(SOURCES)
          /\ scan_log = SubSeq(SOURCES, 1, Len(scan_log)))
    /\ [](pc = "done" => scan_log = SOURCES)
    /\ [](pc # "done" => HasStep)
    /\ [][pc # "done" => (RunMeasure' < RunMeasure /\ RunMeasure' >= 0)]_vars

C6_Witness ==
    /\ pc = "done" /\ scan_log = SOURCES
    /\ scan_failed /\ send_failed /\ io_fault
    /\ file_tweets.st = "corrupt"

\* C7, as the claim has it: once a send has succeeded the candidate's identifier
\* and fingerprint are in the store before the delay starts.
C7_PersistedBeforeDelay ==
    pc = "sleep" =>
        /\ Current.id \in Stored(file_tweets)
        /\ Current.content_hash \in Stored(file_content)

\* C7, amended: after a send that succeeded main() calls save_posted_data, which
\* leaves the identifier and the fingerprint in the store unless opening or
\* writing a store file fails, and only then sleeps 10 units; when the next
\* candidate is filtered or sent, or the next source scanned, the run has slept
\* 10 units for each send that succeeded and none for a send that failed.
C7_SaveThenDelayThenNext ==
    /\ pc \in {"scan", "item", "send", "done"} => clock = 10 * sent_ok
    /\ pc \in {"save", "sleep"} => (sent_ok >= 1 /\ clock = 10 * (sent_ok - 1))
    /\ (pc = "sleep" /\ save_err \in {"none", "load"}) =>
          /\ Current.id \in Stored(file_tweets)
          /\ Current.content_hash \in Stored(file_content)

C7_Witness ==
    /\ pc = "send" /\ sent_ok = 1 /\ clock = 10 /\ send_failed
    /\ relayed \cap {Current} = {}

\* C8: a caption assembled to exactly 1000 code points comes back as it is; one
\* of 1001 or more comes back as its first 950 code points, then "...", then a
\* blank line and "[CONTINUED]": 953 code points and the 13 of the marker.
C8_TruncationBoundary ==
    fm_out # NoMessage =>
        LET m == Caption(fm_tweet)
            out == fm_out.text
        IN  /\ Len(m) = 1000 => out = m
            /\ Len(m) >= 1001 =>
                  /\ Len(out) = 953 + 13
                  /\ SubSeq(out, 1, 950) = SubSeq(m, 1, 950)
                  /\ SubSeq(out, 951, 953) = <<".", ".", ".">>
                  /\ SubSeq(out, 954, 966)
                       = <<"\n", "\n", "[", "C", "O", "N", "T", "I", "N", "U", "E", "D", "]">>

C8_Witness ==
    /\ fm_out # NoMessage
    /\ Len(fm_tweet.text) + FrameLen + Len(extract_title(fm_tweet.text)) = 1001
    /\ Len(fm_out.text) = 966

\* C9: an article whose timestamp parses is kept exactly when the post is less
\* than 24 hours old at scan time (23 hours old: kept; 25 hours old: passed
\* over), and an article whose timestamp does not parse is kept.
C9_RecentIffWithinWindow ==
    (kept # "unset" /\ article.has_time) =>
        IF age.known
        THEN (kept = "kept") <=> (age.hours < 24 \/ (age.hours = 24 /\ age.micros < 0))
        ELSE kept = "kept"

C9_Witness ==
    /\ kept = "skipped" /\ article.has_time
    /\ age.known /\ age.hours = 25 /\ age.micros = 0

\* C10: as long as no read or write of a store file has failed, no candidate
\* whose identifier or whose fingerprint is that of a candidate relayed in an
\* earlier run is handed to send_to_telegram.
C10_NoRelayOfEarlierRuns ==
    (pc = "send" /\ ~io_fault) =>
        /\ Current.id \notin prev_ids
        /\ Current.content_hash \notin prev_hashes

C10_Witness ==
    /\ run = 2 /\ pc = "item" /\ idx = 2 /\ sent_ok = 0 /\ ~send_failed /\ ~io_fault
    /\ tweets[1].content_hash \in prev_hashes
    /\ tweets[1].id \notin prev_ids

====
